---- MODULE Spec2Model ----
(***************************************************************************)
(* The two markdown fixers of the repository, fix-md-complete.py and       *)
(* fix-remaining-md-errors.py, as a state machine.  A text is a sequence   *)
(* of one-character strings; a document is that text, split on "\n" into   *)
(* lines by the code.  One behaviour is one run of one script on one file. *)
(* The third script, scripts/query_sft_knowledge.py, is the query tool of  *)
(* the knowledge base: one behaviour is one run of it on a command line    *)
(* and a standard input.                                                   *)
(***************************************************************************)
EXTENDS Integers, Sequences, FiniteSets, TLC

VARIABLES script, file, content, lines, i, result, in_code_block, text, fixed, pc,
          argv, io, stdout, exit_code, stdin, query, calls

vars == <<script, file, content, lines, i, result, in_code_block, text, fixed, pc,
          argv, io, stdout, exit_code, stdin, query, calls>>

\* the lines standard input still holds, the query of main, the calls of
\* query_collection made so far
kb == <<stdin, query, calls>>

\* the command line, the files opened, what was printed, the exit code
cli == <<argv, io, stdout, exit_code>>

(***************************************************************************)
(* Characters and string primitives (Python str / re semantics).           *)
(***************************************************************************)
NL == "\n"

\* str.strip() and the regex class \s: the whitespace that can occur in a line
WS == {" ", "\t"}

\* the regex class \d
DIGITS == {"0", "1", "2", "3", "4", "5", "6", "7", "8", "9"}

\* the regex class [.,;:] of the heading rule
PUNCT == {".", ",", ";", ":"}

\* the regex class [-:| ] of the separator-row pattern
SEPCHARS == {"-", ":", "|", " "}

\* the backtick, which a TLA+ string cannot hold: "~" stands for it
BT == "~"

\* the code-fence delimiter, three backticks
FENCE == <<BT, BT, BT>>

\* the delimiter with the default language tag
FENCE_TEXT == FENCE \o <<"t", "e", "x", "t">>

Min(S) == CHOOSE x \in S : \A y \in S : x <= y

Max(S) == CHOOSE x \in S : \A y \in S : x >= y

\* number of leading whitespace characters of s
LeadWS(s) == Max({k \in 0..Len(s) : \A j \in 1..k : s[j] \in WS})

\* number of trailing whitespace characters of s
TrailWS(s) == Max({k \in 0..Len(s) : \A j \in (Len(s) - k + 1)..Len(s) : s[j] \in WS})

\* str.rstrip()
RStrip(s) == SubSeq(s, 1, Len(s) - TrailWS(s))

\* str.strip()
Strip(s) == LET r == RStrip(s) IN SubSeq(r, LeadWS(r) + 1, Len(r))

\* str.startswith(p)
StartsWith(s, p) == Len(s) >= Len(p) /\ SubSeq(s, 1, Len(p)) = p

\* str.endswith(p)
EndsWith(s, p) == Len(s) >= Len(p) /\ SubSeq(s, Len(s) - Len(p) + 1, Len(s)) = p

RECURSIVE Split(_, _)
\* str.split(c) for a one-character separator c
Split(s, c) ==
    LET idx == {k \in 1..Len(s) : s[k] = c}
    IN  IF idx = {} THEN <<s>>
        ELSE LET k == Min(idx)
             IN  <<SubSeq(s, 1, k - 1)>> \o Split(SubSeq(s, k + 1, Len(s)), c)

RECURSIVE Join(_, _)
\* c.join(parts)
Join(parts, c) ==
    IF Len(parts) = 0 THEN <<>>
    ELSE IF Len(parts) = 1 THEN parts[1]
    ELSE parts[1] \o <<c>> \o Join(Tail(parts), c)

\* str.replace of every space by nothing
RECURSIVE RemoveSpaces(_)
RemoveSpaces(s) ==
    IF s = <<>> THEN <<>>
    ELSE IF Head(s) = " " THEN RemoveSpaces(Tail(s))
    ELSE <<Head(s)>> \o RemoveSpaces(Tail(s))

(***************************************************************************)
(* fix-md-complete.py: pass 1, the per-line rewrites.                      *)
(***************************************************************************)
\* re.match(r'^\|[-:| ]+\|$', line)
IsSepRow(line) ==
    /\ Len(line) >= 3
    /\ line[1] = "|"
    /\ line[Len(line)] = "|"
    /\ \A k \in 2..(Len(line) - 1) : line[k] \in SEPCHARS

\* SepCell without the removal of the spaces inside the cell
SepCell_KeepsInnerSpaces(part) == <<" ">> \o Strip(part) \o <<" ">>

\* the cell of an interior part of a separator row
SepCell(part) == <<" ">> \o RemoveSpaces(Strip(part)) \o <<" ">>

\* the rewritten separator row
FixSepRow(line) ==
    LET parts == Split(line, "|")
        fixed_parts == [j \in 1..Len(parts) |->
                           IF j = 1 \/ j = Len(parts) THEN parts[j]
                           ELSE SepCell(parts[j])]
    IN  Join(fixed_parts, "|")

\* IsBareFence taking every fence delimiter, tagged or not
IsBareFence_AnyDelimiter(line) == StartsWith(Strip(line), FENCE)

\* MD040: the stripped line is the bare delimiter
IsBareFence(line) == Strip(line) = FENCE

\* what the first pass leaves in lines[i]
Pass1Line(line) ==
    IF IsSepRow(line) THEN FixSepRow(line)
    ELSE IF IsBareFence(line) THEN FENCE_TEXT
    ELSE line

(***************************************************************************)
(* fix-md-complete.py: pass 2, the classification of a line and the blank  *)
(* lines put around it.                                                    *)
(***************************************************************************)
is_heading(line) == Len(line) > 1 /\ line[1] = "#" /\ line[2] \in {" ", "#"}

\* re.match(r'^(\s*)[-*]\s+|^(\s*)\d+\.\s+', line)
is_list(line) ==
    LET w == LeadWS(line)
        r == SubSeq(line, w + 1, Len(line))
        d == Max({k \in 0..Len(r) : \A j \in 1..k : r[j] \in DIGITS})
    IN  \/ Len(r) >= 2 /\ r[1] \in {"-", "*"} /\ r[2] \in WS
        \/ d >= 1 /\ Len(r) >= d + 2 /\ r[d + 1] = "." /\ r[d + 2] \in WS

is_code_fence(line) == StartsWith(Strip(line), FENCE)

is_blank(line) == Strip(line) = <<>>

\* prev_line as the line last appended to result, an inserted blank line included
prev_line_FromResult(ls, k) == IF result # <<>> THEN result[Len(result)] ELSE <<>>

prev_line(ls, k) == IF k > 1 THEN ls[k - 1] ELSE <<>>

next_line(ls, k) == IF k < Len(ls) THEN ls[k + 1] ELSE <<>>

\* BlankBeforeHeading without the test that the previous line is no heading
BlankBeforeHeading_AlsoAfterHeading(line, prev) ==
    is_heading(line) /\ ~is_blank(prev) /\ Strip(prev) # <<>>

BlankBeforeHeading(line, prev) ==
    is_heading(line) /\ ~is_blank(prev) /\ ~is_heading(prev) /\ Strip(prev) # <<>>

\* BlankBeforeList without the test that the previous line is no fence delimiter
BlankBeforeList_AlsoAfterFence(line, prev) ==
    /\ is_list(line) /\ ~is_blank(prev) /\ ~is_list(prev) /\ ~is_heading(prev)
    /\ Strip(prev) # <<>>

BlankBeforeList(line, prev) ==
    /\ is_list(line) /\ ~is_blank(prev) /\ ~is_list(prev) /\ ~is_heading(prev)
    /\ ~is_code_fence(prev) /\ Strip(prev) # <<>>

BlankBeforeFence(line, prev) ==
    is_code_fence(line) /\ ~is_blank(prev) /\ ~is_heading(prev) /\ Strip(prev) # <<>>

BlankAfterHeading(line, next) ==
    is_heading(line) /\ ~is_blank(next) /\ ~is_heading(next) /\ Strip(next) # <<>>

BlankAfterList(line, next) ==
    /\ is_list(line) /\ ~is_blank(next) /\ ~is_list(next) /\ ~is_heading(next)
    /\ Strip(next) # <<>>

BlankAfterFence(line, next) ==
    is_code_fence(line) /\ ~is_blank(next) /\ ~is_heading(next) /\ Strip(next) # <<>>

\* Blank adding a line of one space
Blank_Space(cond) == IF cond THEN << <<" ">> >> ELSE <<>>

Blank(cond) == IF cond THEN <<(<<>>)>> ELSE <<>>

\* what one iteration of the second pass appends to result
Pass2Emit(ls, k) ==
    LET line == ls[k]
        prev == prev_line(ls, k)
        next == next_line(ls, k)
    IN  Blank(BlankBeforeHeading(line, prev))
        \o Blank(BlankBeforeList(line, prev))
        \o Blank(BlankBeforeFence(line, prev))
        \o <<line>>
        \o Blank(BlankAfterHeading(line, next))
        \o Blank(BlankAfterList(line, next))
        \o Blank(BlankAfterFence(line, next))

(***************************************************************************)
(* fix-md-complete.py: pass 3, the whole-text clean-up.                    *)
(***************************************************************************)
\* number of leading NL characters of s
LeadNL(s) == Max({k \in 0..Len(s) : \A j \in 1..k : s[j] = NL})

RECURSIVE CollapseNewlines(_)
\* re.sub(r'\n\n\n+', '\n\n', text)
CollapseNewlines(s) ==
    IF s = <<>> THEN <<>>
    ELSE LET n == LeadNL(s)
         IN  IF n >= 3 THEN <<NL, NL>> \o CollapseNewlines(SubSeq(s, n + 1, Len(s)))
             ELSE IF n >= 1 THEN SubSeq(s, 1, n) \o CollapseNewlines(SubSeq(s, n + 1, Len(s)))
             ELSE <<Head(s)>> \o CollapseNewlines(Tail(s))

\* text.rstrip('\n')
RStripNL(s) ==
    SubSeq(s, 1, Len(s) - Max({k \in 0..Len(s) : \A j \in (Len(s) - k + 1)..Len(s) : s[j] = NL}))

\* SingleTrailingNewline without the rstrip: one more line break is appended
SingleTrailingNewline_NoStrip(s) == s \o <<NL>>

\* SingleTrailingNewline with text.rstrip() in place of text.rstrip('\n')
SingleTrailingNewline_StripsAll(s) ==
    SubSeq(s, 1, Len(s) - Max({k \in 0..Len(s) :
                                  \A j \in (Len(s) - k + 1)..Len(s) : s[j] \in WS \cup {NL}}))
        \o <<NL>>

\* text.rstrip('\n') + '\n'
SingleTrailingNewline(s) == RStripNL(s) \o <<NL>>

(***************************************************************************)
(* fix-remaining-md-errors.py: the rewrites of one line outside a fence.   *)
(***************************************************************************)
\* number of leading "#" characters of s
LeadHash(s) == Max({k \in 0..Len(s) : \A j \in 1..k : s[j] = "#"})

\* re.match(r'^(#+\s+.+?)([.,;:]+)(\s*)$', line) with #+ of h characters, \s+ of w
\* and .+? of m: group 2 is the whole run of punctuation that follows, group 3
\* the rest of the line, which must be whitespace
HeadingMatches(line, h, w, m) ==
    LET g == h + w + m
        p == Max({k \in 0..(Len(line) - g) : \A j \in (g + 1)..(g + k) : line[j] \in PUNCT})
    IN  /\ h >= 1 /\ w >= 1 /\ m >= 1 /\ g < Len(line)
        /\ \A j \in 1..h : line[j] = "#"
        /\ \A j \in (h + 1)..(h + w) : line[j] \in WS
        /\ p >= 1
        /\ \A j \in (g + p + 1)..Len(line) : line[j] \in WS

\* the match the regex engine finds first: #+ and \s+ greedy, .+? lazy
HeadingMatch(line) ==
    LET h == LeadHash(line)
        C == {c \in (1..Len(line)) \X (1..Len(line)) : HeadingMatches(line, h, c[1], c[2])}
    IN  IF C = {} THEN <<>>
        ELSE LET w == Max({c[1] : c \in C})
                 m == Min({c[2] : c \in {d \in C : d[1] = w}})
             IN  <<h + w + m>>

\* MD026: match.group(1) + match.group(3)
FixHeading(line) ==
    IF ~StartsWith(line, <<"#">>) \/ HeadingMatch(line) = <<>> THEN line
    ELSE LET g == HeadingMatch(line)[1]
             p == Max({k \in 0..(Len(line) - g) :
                          \A j \in (g + 1)..(g + k) : line[j] \in PUNCT})
         IN  SubSeq(line, 1, g) \o SubSeq(line, g + p + 1, Len(line))

FOUR_SPACES == <<" ", " ", " ", " ">>

TWO_SPACES == <<" ", " ">>

\* re.match(r'^    [-*]\s+', line)
IsIndentedItem(line) ==
    Len(line) >= 6 /\ StartsWith(line, FOUR_SPACES) /\ line[5] \in {"-", "*"} /\ line[6] \in WS

\* str.replace(old, new, 1)
ReplaceFirst(s, old, new) ==
    LET at == {k \in 1..(Len(s) - Len(old) + 1) : SubSeq(s, k, k + Len(old) - 1) = old}
    IN  IF at = {} THEN s
        ELSE LET k == Min(at)
             IN  SubSeq(s, 1, k - 1) \o new \o SubSeq(s, k + Len(old), Len(s))

\* FixIndent taking ordered items as well as unordered ones
FixIndent_AlsoOrdered(line) ==
    LET d == Max({k \in 0..(Len(line) - 4) : \A j \in 5..(4 + k) : line[j] \in DIGITS})
    IN  IF IsIndentedItem(line) THEN ReplaceFirst(line, FOUR_SPACES, TWO_SPACES)
        ELSE IF /\ StartsWith(line, FOUR_SPACES) /\ d >= 1 /\ Len(line) >= d + 6
                /\ line[d + 5] = "." /\ line[d + 6] \in WS
             THEN ReplaceFirst(line, FOUR_SPACES, TWO_SPACES)
        ELSE line

\* MD007
FixIndent(line) ==
    IF IsIndentedItem(line) THEN ReplaceFirst(line, FOUR_SPACES, TWO_SPACES) ELSE line

\* number of digits of s from position k on
DigitRun(s, k) == Max({d \in 0..(Len(s) - k + 1) : \A j \in k..(k + d - 1) : s[j] \in DIGITS})

\* re.match(r'^(\s*)(\d+)\.\s+', line)
ordered_match(line) ==
    LET w == LeadWS(line)
        d == DigitRun(line, w + 1)
    IN  d >= 1 /\ Len(line) >= w + d + 2 /\ line[w + d + 1] = "." /\ line[w + d + 2] \in WS

\* the placeholder filled in: every ordered item is numbered 1
FixNumbering_FromOne(line) ==
    LET w == LeadWS(line)
        d == DigitRun(line, w + 1)
    IN  IF ordered_match(line)
        THEN SubSeq(line, 1, w) \o <<"1">> \o SubSeq(line, w + d + 1, Len(line))
        ELSE line

\* MD029: the match is taken and nothing is done with it (pass)
FixNumbering(line) == IF ordered_match(line) THEN line ELSE line

\* MD009
FixTrailing(line) ==
    IF EndsWith(line, <<" ">>) /\ ~EndsWith(line, TWO_SPACES) THEN RStrip(line) ELSE line

\* the pattern \*\s+([^*]+?)\s+\* at the head of s, with \s+ of w characters,
\* group 1 of m and the second \s+ of t
EmphMatches(s, w, m, t) ==
    /\ w >= 1 /\ m >= 1 /\ t >= 1 /\ Len(s) >= w + m + t + 2
    /\ s[1] = "*"
    /\ \A j \in 2..(w + 1) : s[j] \in WS
    /\ \A j \in (w + 2)..(w + m + 1) : s[j] # "*"
    /\ \A j \in (w + m + 2)..(w + m + t + 1) : s[j] \in WS
    /\ s[w + m + t + 2] = "*"

\* the match the regex engine finds first: \s+ greedy, group 1 lazy, \s+ greedy
EmphMatch(s) ==
    LET N == 1..Len(s)
        C == {c \in N \X N \X N : EmphMatches(s, c[1], c[2], c[3])}
    IN  IF C = {} THEN <<>>
        ELSE LET w == Max({c[1] : c \in C})
                 m == Min({c[2] : c \in {d \in C : d[1] = w}})
                 t == Max({c[3] : c \in {d \in C : d[1] = w /\ d[2] = m}})
             IN  <<w, m, t>>

RECURSIVE FixEmphasis(_)
\* MD037: re.sub(r'\*\s+([^*]+?)\s+\*', r'*\1*', line)
FixEmphasis(s) ==
    IF s = <<>> THEN <<>>
    ELSE LET f == EmphMatch(s)
         IN  IF f = <<>> THEN <<Head(s)>> \o FixEmphasis(Tail(s))
             ELSE <<"*">> \o SubSeq(s, f[1] + 2, f[1] + f[2] + 1) \o <<"*">>
                  \o FixEmphasis(SubSeq(s, f[1] + f[2] + f[3] + 3, Len(s)))

\* '|' in line and re.match(r'^\|.+\|$', line.strip())
IsTableRow(line) ==
    LET t == Strip(line)
    IN  Len(t) >= 3 /\ t[1] = "|" /\ t[Len(t)] = "|"

\* CompactRow stripping the first and the last part as well
CompactRow_StripsEveryPart(line) ==
    LET parts == Split(line, "|")
    IN  Join([j \in 1..Len(parts) |-> Strip(parts[j])], "|")

\* the row with every interior part stripped
CompactRow(line) ==
    LET parts == Split(line, "|")
        fixed_parts == [j \in 1..Len(parts) |->
                           IF j = 1 \/ j = Len(parts) THEN parts[j]
                           ELSE Strip(parts[j])]
    IN  Join(fixed_parts, "|")

\* MD060 (compact style)
FixTableRow(line) ==
    IF IsTableRow(line) /\ ~IsSepRow(line) THEN CompactRow(line) ELSE line

\* one line outside a code block, through the rules in the order of the loop body
FixLine(line) ==
    FixTableRow(FixEmphasis(FixTrailing(FixNumbering(FixIndent(FixHeading(line))))))

(***************************************************************************)
(* The two fixers as functions of the text.                                *)
(***************************************************************************)
RECURSIVE ErrorsLoop(_, _)
\* the loop of fix_markdown_errors over the lines that remain
ErrorsLoop(ls, inside) ==
    IF ls = <<>> THEN <<>>
    ELSE IF is_code_fence(Head(ls)) THEN <<Head(ls)>> \o ErrorsLoop(Tail(ls), ~inside)
    ELSE IF inside THEN <<Head(ls)>> \o ErrorsLoop(Tail(ls), inside)
    ELSE <<FixLine(Head(ls))>> \o ErrorsLoop(Tail(ls), inside)

fix_markdown_errors(c) == Join(ErrorsLoop(Split(c, NL), FALSE), NL)

RECURSIVE Concat(_)
Concat(ss) == IF ss = <<>> THEN <<>> ELSE Head(ss) \o Concat(Tail(ss))

fix_markdown_complete(c) ==
    LET l0 == Split(c, NL)
        l1 == [k \in 1..Len(l0) |-> Pass1Line(l0[k])]
        r  == Concat([k \in 1..Len(l1) |-> Pass2Emit(l1, k)])
    IN  SingleTrailingNewline(CollapseNewlines(Join(r, NL)))

(***************************************************************************)
(* The files the scripts are run on.                                       *)
(***************************************************************************)
\* longest document of pool lines, in lines
MaxLines == 4

\* longest separator-shaped line of a one-line document
MaxSepLen == 5

\* longest line of a one-line document given to fix-remaining-md-errors.py
MaxLen == 5

\* deepest indentation of the list items given to fix-remaining-md-errors.py
MaxIndent == 5

\* largest len(sys.argv) a script is started with
MaxArgc == 3

\* every sequence over alphabet of at most n characters
LinesOver(alphabet, n) == UNION {[1..k -> alphabet] : k \in 0..n}

\* every text of 1..n lines of pool
Docs(pool, n) == {Join(ls, NL) : ls \in UNION {[1..k -> pool] : k \in 1..n}}

\* a blank, a whitespace-only and a plain line, a heading, an unordered and an
\* ordered list item, a bare and a tagged fence delimiter, a separator row
CompletePool ==
    { <<>>, <<" ">>, <<"a">>, <<"#", " ", "a">>, <<"-", " ", "a">>,
      <<"1", ".", " ", "a">>, FENCE, FENCE \o <<"a">>, <<"|", "-", "|">> }

\* "Some text\n# Heading\nMore text" and "| --- | :--: |", the examples of the
\* specification
ExampleDocs ==
    { <<"S","o","m","e"," ","t","e","x","t", NL, "#"," ","H","e","a","d","i","n","g", NL,
        "M","o","r","e"," ","t","e","x","t">>,
      <<"|"," ","-","-","-"," ","|"," ",":","-","-",":"," ","|">> }


\* lines at the edge of the classification: an indented item, a marker or a
\* number with no space after it, "#" with no space after it, a run of "#"
EdgePool ==
    { <<"a">>, <<"#", " ", "a">>, <<" ", " ", "*", " ", "a">>, <<"-", "a">>,
      <<"1", ".", "a">>, <<"#", "a">>, <<"#", "#">> }

CompleteInputs ==
    Docs(CompletePool, MaxLines) \cup Docs(EdgePool, MaxLines - 1)
        \cup LinesOver(SEPCHARS, MaxSepLen) \cup ExampleDocs

ErrorsAlphabet == {" ", "a", "#", ".", "*", "|"}

\* a plain line with a trailing space, an unordered and an ordered item indented
\* by four spaces, a heading with punctuation, a padded table row, a padded
\* separator row, a fence delimiter
ErrorsPool ==
    { <<"a", " ">>, FOUR_SPACES \o <<"-", " ", "a">>, FOUR_SPACES \o <<"1", ".", " ", "a">>,
      <<"#", " ", "a", ".">>, <<"|", " ", "a", " ", "|">>,
      <<"|", " ", "-", " ", "|">>, FENCE }

\* n spaces
Spaces(n) == [j \in 1..n |-> " "]

\* list items: an indentation, an unordered or an ordered marker, and what follows
ItemLines ==
    LET markers == { <<"-">>, <<"*">>, <<"1", ".">>, <<"1", "2", ".">> }
        rests   == { <<>>, <<" ">>, <<" ", "a">>, <<" ", " ", "a">>, <<" ", "a", " ">>,
                     <<"a">>, <<" ", "a", " ", "*">>, FOUR_SPACES \o <<"a">> }
    IN  {Spaces(n) \o m \o r : n \in 0..MaxIndent, m \in markers, r \in rests}

\* table rows: what precedes the first pipe, two cells, what follows the last
TableLines ==
    LET cells == { <<>>, <<" ">>, <<"a">>, <<" ", "a">>, <<"a", " ">>,
                   <<" ", "a", " ", "b", " ">>, <<"-">>, <<" ", "-", " ">>, <<":", "-">> }
        firsts == { <<>>, <<" ">>, <<"a", " ">> }
        lasts  == { <<>>, <<" ">>, <<" ", " ">>, <<" ", "a">> }
    IN  {f \o <<"|">> \o c \o <<"|">> \o d \o <<"|">> \o l :
            f \in firsts, c \in cells, d \in cells, l \in lasts}

\* "## Section Title:" and "## Section Title", the examples of the specification,
\* headings ending in each punctuation character, an indented fence delimiter
\* that opens a block, a fence that is never closed after a row with one pipe
ErrorsExamples ==
    LET title == <<"#","#"," ","S","e","c","t","i","o","n"," ","T","i","t","l","e">>
    IN  { title \o <<":">>, title, <<"#"," ","a",",">>, <<"#"," ","a",";",":">>,
          <<"#"," ","a",":"," "," ">>,
          <<" ">> \o FENCE \o <<NL, "a", " ", NL>> \o FENCE \o <<" ", NL, "a", " ">>,
          <<"|", "a", NL>> \o FENCE \o <<NL, "a", " ">> }

ErrorsInputs ==
    LinesOver(ErrorsAlphabet, MaxLen) \cup Docs(ErrorsPool, MaxLines - 1)
        \cup ItemLines \cup TableLines \cup ErrorsExamples

(***************************************************************************)
(* The run of a script: __main__ reads the file, calls the fixer, writes   *)
(* the file back.                                                          *)
(***************************************************************************)
\* sys.argv[0]
Program(s) == IF s = "complete" THEN "fix-md-complete.py" ELSE "fix-remaining-md-errors.py"

\* the message of the usage error
Usage(s) ==
    IF s = "complete" THEN <<"Usage: fix-md-complete.py <file>">>
    ELSE <<"Usage: fix-remaining-md-errors.py <file>">>

\* the state before the first statement of __main__, the script started with
\* the arguments args; file is the file its first argument names
StartWith(s, inputs, args) ==
    /\ script = s
    /\ argv = <<Program(s)>> \o args
    /\ io = <<>>
    /\ stdout = <<>>
    /\ exit_code = "running"
    /\ stdin = <<>>
    /\ query = <<>>
    /\ calls = <<>>
    /\ file \in inputs
    /\ content = <<>>
    /\ lines = <<>>
    /\ i = 1
    /\ result = <<>>
    /\ in_code_block = FALSE
    /\ text = <<>>
    /\ fixed = <<>>
    /\ pc = "start"

\* the script started on one file
Start(s, inputs) == StartWith(s, inputs, <<"a.md">>)

InitComplete == Start("complete", CompleteInputs)

InitErrors == Start("errors", ErrorsInputs)

\* the usage error leaving with exit code 0
MainUsage_ExitsZero ==
    /\ pc = "start"
    /\ Len(argv) # 2
    /\ stdout' = Append(stdout, Usage(script))
    /\ exit_code' = 0
    /\ pc' = "exit"
    /\ UNCHANGED <<kb, argv, io, script, file, content, lines, i, result, in_code_block,
                   text, fixed>>

\* if len(sys.argv) != 2: print("Usage: ..."); sys.exit(1)
MainUsage ==
    /\ pc = "start"
    /\ Len(argv) # 2
    /\ stdout' = Append(stdout, Usage(script))
    /\ exit_code' = 1
    /\ pc' = "exit"
    /\ UNCHANGED <<kb, argv, io, script, file, content, lines, i, result, in_code_block,
                   text, fixed>>

\* filepath = sys.argv[1]; with open(filepath, 'r') as f: content = f.read()
MainRead ==
    /\ pc = "start"
    /\ Len(argv) = 2
    /\ io' = Append(io, <<"r", argv[2]>>)
    /\ content' = file
    /\ pc' = "split"
    /\ UNCHANGED <<kb, argv, stdout, exit_code, script, file, lines, i, result, in_code_block,
                   text, fixed>>

\* fix_markdown_complete: lines = content.split('\n')
CSplit ==
    /\ pc = "split" /\ script = "complete"
    /\ lines' = Split(content, NL)
    /\ i' = 1
    /\ pc' = "pass1"
    /\ UNCHANGED <<kb, cli, script, file, content, result, in_code_block, text, fixed>>

\* one iteration of the first pass
Pass1 ==
    /\ pc = "pass1"
    /\ lines' = [lines EXCEPT ![i] = Pass1Line(lines[i])]
    /\ IF i < Len(lines)
       THEN i' = i + 1 /\ pc' = pc
       ELSE i' = 1 /\ pc' = "pass2"
    /\ result' = <<>>
    /\ UNCHANGED <<kb, cli, script, file, content, in_code_block, text, fixed>>

\* one iteration of the second pass
Pass2 ==
    /\ pc = "pass2"
    /\ result' = result \o Pass2Emit(lines, i)
    /\ IF i < Len(lines)
       THEN i' = i + 1 /\ pc' = pc
       ELSE i' = i /\ pc' = "join"
    /\ UNCHANGED <<kb, cli, script, file, content, lines, in_code_block, text, fixed>>

\* text = '\n'.join(result)
JoinResult ==
    /\ pc = "join"
    /\ text' = Join(result, NL)
    /\ pc' = "collapse"
    /\ UNCHANGED <<kb, cli, script, file, content, lines, i, result, in_code_block, fixed>>

\* MD012
Collapse ==
    /\ pc = "collapse"
    /\ text' = CollapseNewlines(text)
    /\ pc' = "newline"
    /\ UNCHANGED <<kb, cli, script, file, content, lines, i, result, in_code_block, fixed>>

\* MD047 and the return
TrailingNewline ==
    /\ pc = "newline"
    /\ text' = SingleTrailingNewline(text)
    /\ fixed' = text'
    /\ pc' = "write"
    /\ UNCHANGED <<kb, cli, script, file, content, lines, i, result, in_code_block>>

\* fix_markdown_errors: lines = content.split('\n'), result = [], in_code_block = False
ESplit ==
    /\ pc = "split" /\ script = "errors"
    /\ lines' = Split(content, NL)
    /\ result' = <<>>
    /\ in_code_block' = FALSE
    /\ i' = 1
    /\ pc' = "loop"
    /\ UNCHANGED <<kb, cli, script, file, content, text, fixed>>

\* the end of one iteration of the loop of fix_markdown_errors
ENext ==
    IF i < Len(lines) THEN i' = i + 1 /\ pc' = pc ELSE i' = i /\ pc' = "return"

\* EFence leaving in_code_block as it is
EFence_NoToggle ==
    /\ pc = "loop"
    /\ is_code_fence(lines[i])
    /\ result' = Append(result, lines[i])
    /\ ENext
    /\ UNCHANGED <<kb, cli, script, file, content, lines, in_code_block, text, fixed>>

\* an iteration on a fence delimiter
EFence ==
    /\ pc = "loop"
    /\ is_code_fence(lines[i])
    /\ in_code_block' = ~in_code_block
    /\ result' = Append(result, lines[i])
    /\ ENext
    /\ UNCHANGED <<kb, cli, script, file, content, lines, text, fixed>>

\* an iteration on a line inside a code block
ECode ==
    /\ pc = "loop"
    /\ ~is_code_fence(lines[i])
    /\ in_code_block
    /\ result' = Append(result, lines[i])
    /\ ENext
    /\ UNCHANGED <<kb, cli, script, file, content, lines, in_code_block, text, fixed>>

\* an iteration on a line outside a code block
ERewrite ==
    /\ pc = "loop"
    /\ ~is_code_fence(lines[i])
    /\ ~in_code_block
    /\ result' = Append(result, FixLine(lines[i]))
    /\ ENext
    /\ UNCHANGED <<kb, cli, script, file, content, lines, in_code_block, text, fixed>>

\* return '\n'.join(result)
EReturn ==
    /\ pc = "return"
    /\ fixed' = Join(result, NL)
    /\ pc' = "write"
    /\ UNCHANGED <<kb, cli, script, file, content, lines, i, result, in_code_block, text>>

\* f.write(fixed); print(f"Fixed {filepath}"); the interpreter then exits with 0
MainWrite ==
    /\ pc = "write"
    /\ io' = Append(io, <<"w", argv[2]>>)
    /\ file' = fixed
    /\ stdout' = Append(stdout, <<"Fixed", argv[2]>>)
    /\ exit_code' = 0
    /\ pc' = "done"
    /\ UNCHANGED <<kb, argv, script, content, lines, i, result, in_code_block, text, fixed>>

NextComplete ==
    \/ MainRead \/ CSplit \/ Pass1 \/ Pass2 \/ JoinResult \/ Collapse
    \/ TrailingNewline \/ MainWrite

NextErrors ==
    \/ MainRead \/ ESplit \/ EFence \/ ECode \/ ERewrite \/ EReturn \/ MainWrite

SpecComplete == InitComplete /\ [][NextComplete]_vars

SpecErrors == InitErrors /\ [][NextErrors]_vars

\* the command lines of at most MaxArgc - 1 arguments
Arguments == UNION {[1..n -> {"a.md", "b.md"}] : n \in 0..(MaxArgc - 1)}

\* the files the scripts are started on when the command line varies
CLIFiles == Docs(ErrorsPool, MaxLines - 2)

\* either script, started with any command line
InitCLI ==
    \E s \in {"complete", "errors"} : \E args \in Arguments : StartWith(s, CLIFiles, args)

NextCLI == MainUsage \/ NextComplete \/ NextErrors

SpecCLI == InitCLI /\ [][NextCLI]_vars

\* a run of either script
InitBoth == InitComplete \/ InitErrors

NextBoth == NextComplete \/ NextErrors

SpecBoth == InitBoth /\ [][NextBoth]_vars

(***************************************************************************)
(* scripts/query_sft_knowledge.py: main.  What the database returns is not *)
(* part of the state: a printed line is recorded by its fixed part.        *)
(***************************************************************************)
UPPER ==
    <<"A","B","C","D","E","F","G","H","I","J","K","L","M",
      "N","O","P","Q","R","S","T","U","V","W","X","Y","Z">>

LOWER ==
    <<"a","b","c","d","e","f","g","h","i","j","k","l","m",
      "n","o","p","q","r","s","t","u","v","w","x","y","z">>

\* str.lower()
Lower(s) ==
    [j \in 1..Len(s) |->
        IF \E n \in 1..26 : UPPER[n] = s[j]
        THEN LOWER[CHOOSE n \in 1..26 : UPPER[n] = s[j]]
        ELSE s[j]]

QUIT == <<"q", "u", "i", "t">>

LIST == <<"l", "i", "s", "t">>

DEMO == <<"d", "e", "m", "o">>

\* the comparison of the command with its name, the case of the command kept
IsCommand_CaseSensitive(q, name) == q = name

\* query.lower() == 'quit', 'list', 'demo'
IsCommand(q, name) == Lower(q) = name

\* the topics of demo_queries
demo_topics ==
    <<
        <<"H","o","w"," ","c","a","n"," ","s","p","a","c","e","-","f","i",
          "l","l","i","n","g"," ","c","u","r","v","e","s"," ","o","p","t",
          "i","m","i","z","e"," ","k","-","n","e","a","r","e","s","t"," ",
          "n","e","i","g","h","b","o","r"," ","s","e","a","r","c","h","?">>,
        <<"W","h","a","t"," ","i","s"," ","t","h","e"," ","b","o","t","t",
          "l","e","n","e","c","k"," ","i","n"," ","m","o","t","i","o","n",
          " ","p","l","a","n","n","i","n","g"," ","w","i","t","h"," ","R",
          "R","T","?">>,
        <<"H","o","w"," ","t","o"," ","i","m","p","l","e","m","e","n","t",
          " ","k","-","N","N"," ","c","a","c","h","i","n","g"," ","i","n",
          " ","s","p","a","t","i","a","l"," ","i","n","d","i","c","e","s",
          "?">>,
        <<"P","e","r","f","o","r","m","a","n","c","e"," ","t","a","r","g",
          "e","t","s"," ","f","o","r"," ","o","p","t","i","m","i","z","e",
          "d"," ","k","-","N","N"," ","s","e","a","r","c","h">>,
        <<"C","o","l","l","i","s","i","o","n"," ","d","e","t","e","c","t",
          "i","o","n"," ","a","c","c","e","l","e","r","a","t","i","o","n",
          " ","w","i","t","h"," ","S","F","C"," ","o","r","d","e","r","i",
          "n","g">>
    >>

\* indexer.query_collection(query_text, n_results): the call as it is made; it
\* makes one collection.query(query_texts=[query_text], n_results=n_results)
query_collection(query_text, n_results) ==
    [query_text |-> query_text, n_results |-> n_results]

\* demo_queries: query_by_topic(indexer, topic, n_results=2) for every topic
DemoCalls == [k \in 1..Len(demo_topics) |-> query_collection(demo_topics[k], 2)]

\* most lines standard input holds
MaxInputs == 3

\* the lines typed: empty, blank, the three commands in several cases and
\* paddings, free-form queries, one of them starting with a command
InputPool ==
    { <<>>, <<" ">>, QUIT, <<" ", "Q", "u", "i", "t", " ">>, LIST, <<"L", "I", "S", "T">>,
      <<"D", "e", "m", "o">>, <<"a">>, QUIT \o <<" ", "a">>, <<" ", "a", " ", "b", " ">> }

\* the words given on the command line
ArgPool == { <<"a">>, <<"b", " ", " ", "c">>, QUIT }

\* every sequence of at most n members of pool
SeqsOver(pool, n) == UNION {[1..k -> pool] : k \in 0..n}

\* the tool started with no argument on any standard input, or with arguments
InitQuery ==
    /\ script = "query"
    /\ \E args \in SeqsOver(ArgPool, MaxArgc - 1) :
          /\ argv = <<"query_sft_knowledge.py">> \o args
          /\ stdin \in SeqsOver(InputPool, IF args = <<>> THEN MaxInputs ELSE 1)
    /\ io = <<>>
    /\ stdout = <<>>
    /\ exit_code = "running"
    /\ query = <<>>
    /\ calls = <<>>
    /\ file = <<>>
    /\ content = <<>>
    /\ lines = <<>>
    /\ i = 1
    /\ result = <<>>
    /\ in_code_block = FALSE
    /\ text = <<>>
    /\ fixed = <<>>
    /\ pc = "start"

\* what the query tool leaves alone
fixer == <<script, file, content, lines, i, result, in_code_block, text, fixed, argv, io>>

\* if len(sys.argv) > 1: the query of the command line
QArgs ==
    /\ pc = "start" /\ script = "query"
    /\ Len(argv) > 1
    /\ query' = Join(Tail(argv), " ")
    /\ calls' = Append(calls, query_collection(query', 5))
    /\ stdout' = stdout \o <<"Space-Filling Trees Motion Planning Knowledge Base",
                             "Query:", "Found">>
    /\ exit_code' = 0
    /\ pc' = "done"
    /\ UNCHANGED <<fixer, stdin>>

\* else: interactive mode, up to the loop
QInteractive ==
    /\ pc = "start" /\ script = "query"
    /\ ~(Len(argv) > 1)
    /\ stdout' = stdout \o <<"Space-Filling Trees Motion Planning Knowledge Base",
                             "Interactive Mode - Enter queries to search the knowledge base.">>
    /\ pc' = "prompt"
    /\ UNCHANGED <<fixer, stdin, query, calls, exit_code>>

\* input() at the end of standard input: EOFError, which main does not catch
QEndOfInput ==
    /\ pc = "prompt"
    /\ stdin = <<>>
    /\ exit_code' = 1
    /\ pc' = "raised"
    /\ UNCHANGED <<fixer, stdin, query, calls, stdout>>

\* query = input("Enter query (or command): ").strip()
QInput ==
    /\ pc = "prompt"
    /\ stdin # <<>>
    /\ query' = Strip(Head(stdin))
    /\ stdin' = Tail(stdin)

\* if not query: continue
QEmpty ==
    /\ QInput
    /\ query' = <<>>
    /\ pc' = "prompt"
    /\ UNCHANGED <<fixer, calls, stdout, exit_code>>

\* elif query.lower() == 'quit': print("Goodbye!"); break
QQuit ==
    /\ QInput
    /\ query' # <<>>
    /\ IsCommand(query', QUIT)
    /\ stdout' = Append(stdout, "Goodbye!")
    /\ exit_code' = 0
    /\ pc' = "done"
    /\ UNCHANGED <<fixer, calls>>

\* elif query.lower() == 'list': list_all_documents(indexer)
QList ==
    /\ QInput
    /\ query' # <<>>
    /\ ~IsCommand(query', QUIT)
    /\ IsCommand(query', LIST)
    /\ stdout' = Append(stdout, "INDEXED DOCUMENTS REFERENCE")
    /\ pc' = "prompt"
    /\ UNCHANGED <<fixer, calls, exit_code>>

\* elif query.lower() == 'demo': demo_queries(indexer)
QDemo ==
    /\ QInput
    /\ query' # <<>>
    /\ ~IsCommand(query', QUIT)
    /\ ~IsCommand(query', LIST)
    /\ IsCommand(query', DEMO)
    /\ calls' = calls \o DemoCalls
    /\ stdout' = stdout \o [k \in 1..Len(demo_topics) |-> "Topic:"]
                        \o <<"Demo Complete - Use free-form queries for custom searches">>
    /\ pc' = "prompt"
    /\ UNCHANGED <<fixer, exit_code>>

\* else: results = indexer.query_collection(query, n_results=5)
QQuery ==
    /\ QInput
    /\ query' # <<>>
    /\ ~IsCommand(query', QUIT)
    /\ ~IsCommand(query', LIST)
    /\ ~IsCommand(query', DEMO)
    /\ calls' = Append(calls, query_collection(query', 5))
    /\ stdout' = Append(stdout, "Found")
    /\ pc' = "prompt"
    /\ UNCHANGED <<fixer, exit_code>>

NextQuery ==
    \/ QArgs \/ QInteractive \/ QEndOfInput
    \/ QEmpty \/ QQuit \/ QList \/ QDemo \/ QQuery

SpecQuery == InitQuery /\ [][NextQuery]_vars

(***************************************************************************)
(* What the claims speak of: the input of the run, its output, fences.     *)
(***************************************************************************)
\* the lines of the file as it was read
InputLines == Split(content, NL)

\* the lines of the text, without the line break that ends it
TextLines(t) ==
    IF t # <<>> /\ t[Len(t)] = NL THEN Split(SubSeq(t, 1, Len(t) - 1), NL) ELSE Split(t, NL)

\* a fence delimiter: a line whose trimmed content starts with three backticks
Delimiter(line) ==
    LET t == Strip(line)
    IN  Len(t) >= 3 /\ t[1] = BT /\ t[2] = BT /\ t[3] = BT

\* number of delimiter lines among ls[1..k]
DelimitersUpTo(ls, k) == Cardinality({j \in 1..k : Delimiter(ls[j])})

\* line k is met while a fence is open
InOpenFence(ls, k) == DelimitersUpTo(ls, k - 1) % 2 = 1

\* line k lies strictly between an opening delimiter and its closing delimiter
InsideFence(ls, k) ==
    /\ ~Delimiter(ls[k])
    /\ InOpenFence(ls, k)
    /\ \E j \in (k + 1)..Len(ls) : Delimiter(ls[j])

\* line k is neither a delimiter nor met while a fence is open
OutsideFence(ls, k) == ~Delimiter(ls[k]) /\ ~InOpenFence(ls, k)

\* the fixer of the running script, as a function
Fixer(c) == IF script = "complete" THEN fix_markdown_complete(c) ELSE fix_markdown_errors(c)

\* the line the per-line rewrites of the running script made of input line k
Rewritten(k) == IF script = "complete" THEN lines[k] ELSE result[k]

\* number of trailing space characters of s
TrailingSpaces(s) == Max({k \in 0..Len(s) : \A j \in (Len(s) - k + 1)..Len(s) : s[j] = " "})

(***************************************************************************)
(* C1.  Idempotence: the fixer applied to its own output returns it        *)
(* unchanged; here, applied to the file the run has written.               *)
(***************************************************************************)
C1_Idempotent == pc = "done" => Fixer(file) = file

(***************************************************************************)
(* C2.  Fence safety: a line strictly between an opening delimiter and its *)
(* closing delimiter is left as it was by the per-line rewrites, and is a  *)
(* line of the output.                                                     *)
(***************************************************************************)
C2_FenceSafety ==
    pc = "done" =>
        \A k \in 1..Len(InputLines) :
            InsideFence(InputLines, k) =>
                /\ Rewritten(k) = InputLines[k]
                /\ \E j \in 1..Len(TextLines(file)) : TextLines(file)[j] = InputLines[k]

(***************************************************************************)
(* C3.  Default language tag only on opening fences: after the first pass  *)
(* a bare delimiter met while no fence is open carries the tag "text", and *)
(* a bare delimiter that closes an open fence is left as it was.           *)
(***************************************************************************)
C3_TagOnlyOnOpening ==
    (script = "complete" /\ pc = "done") =>
        \A k \in 1..Len(InputLines) :
            Strip(InputLines[k]) = FENCE =>
                lines[k] = IF InOpenFence(InputLines, k) THEN InputLines[k] ELSE FENCE_TEXT

(***************************************************************************)
(* C4.  Trailing-space rule: outside a fence, a line ending in exactly two *)
(* spaces keeps exactly two, and a line ending in one space or in three or *)
(* more is output with no trailing space.                                  *)
(***************************************************************************)
C4_TrailingSpaceRule ==
    (script = "errors" /\ pc = "done") =>
        \A k \in 1..Len(lines) :
            OutsideFence(lines, k) =>
                LET n == TrailingSpaces(lines[k])
                IN  /\ n = 2 => TrailingSpaces(result[k]) = 2
                    /\ n = 1 => TrailingSpaces(result[k]) = 0
                    /\ n >= 3 => TrailingSpaces(result[k]) = 0

(***************************************************************************)
(* C5.  Blank-run collapse: the output of fix_markdown_complete has no two *)
(* consecutive blank lines, at the start, in the middle or at the end.     *)
(***************************************************************************)
C5_NoBlankRun ==
    (script = "complete" /\ pc = "done") =>
        LET out == TextLines(file)
        IN  \A k \in 1..(Len(out) - 1) : ~(out[k] = <<>> /\ out[k + 1] = <<>>)

(***************************************************************************)
(* C6.  Emphasis tightening never consumes a list marker: outside a fence, *)
(* a line that starts with "* " and has an item text after the marker is   *)
(* output starting with "* ".                                              *)
(***************************************************************************)
C6_KeepsListMarker ==
    (script = "errors" /\ pc = "done") =>
        \A k \in 1..Len(lines) :
            (/\ OutsideFence(lines, k)
             /\ StartsWith(lines[k], <<"*", " ">>)
             /\ Strip(lines[k]) # <<"*">>)
                => StartsWith(result[k], <<"*", " ">>)

\* the shape of a separator row, as C7 states it
SeparatorShape(line) ==
    /\ Len(line) >= 1
    /\ line[1] = "|"
    /\ line[Len(line)] = "|"
    /\ \A k \in 1..Len(line) : line[k] \in {"|", "-", ":", " "}

\* s holds a space
HasSpace(s) == \E k \in 1..Len(s) : s[k] = " "

\* the separator row of the specification's example
ExampleSeparator == <<"|"," ","-","-","-"," ","|"," ",":","-","-",":"," ","|">>

(***************************************************************************)
(* C7.  Table separator rewrite: a line of only "|", "-", ":" and spaces   *)
(* that starts and ends with "|" leaves the first pass with as many        *)
(* "|"-separated segments as it had, the first and the last segment as     *)
(* they were, and every interior segment holding the same characters other *)
(* than spaces, as one token with no space inside it; and the separator    *)
(* row of the specification's example is mapped to itself.                 *)
(***************************************************************************)
C7_SeparatorRewrite ==
    (script = "complete" /\ pc = "done") =>
        \A k \in 1..Len(InputLines) :
            SeparatorShape(InputLines[k]) =>
                LET old == Split(InputLines[k], "|")
                    new == Split(lines[k], "|")
                IN  /\ Len(new) = Len(old)
                    /\ new[1] = old[1]
                    /\ new[Len(new)] = old[Len(old)]
                    /\ \A j \in 2..(Len(new) - 1) :
                          /\ ~HasSpace(Strip(new[j]))
                          /\ Strip(new[j]) = RemoveSpaces(old[j])
                    /\ InputLines[k] = ExampleSeparator => lines[k] = ExampleSeparator
                    /\ \E j \in 1..Len(TextLines(file)) : TextLines(file)[j] = lines[k]

\* a separator row with a space inside a cell token has been rewritten and written
C7_Witness ==
    /\ script = "complete" /\ pc = "done"
    /\ \E k \in 1..Len(InputLines) :
          /\ SeparatorShape(InputLines[k])
          /\ \E j \in 2..(Len(Split(InputLines[k], "|")) - 1) :
                HasSpace(Strip(Split(InputLines[k], "|")[j]))
          /\ lines[k] # InputLines[k]
          /\ \E j \in 1..Len(TextLines(file)) : TextLines(file)[j] = lines[k]

(***************************************************************************)
(* Lines that are not empty keep their order through the second and third  *)
(* pass, so the n-th of them in the output is the n-th after pass 1; the   *)
(* gap after it is the number of empty lines up to the next one.           *)
(***************************************************************************)
\* the indices of the lines of ls that are not empty, in order
NonEmptyIdx(ls) ==
    LET S == {k \in 1..Len(ls) : ls[k] # <<>>}
    IN  [n \in 1..Cardinality(S) |-> CHOOSE k \in S : Cardinality({j \in S : j <= k}) = n]

\* number of lines between the n-th and the (n+1)-th index of idx
Gap(idx, n) == idx[n + 1] - idx[n] - 1

SomeText == <<"S","o","m","e"," ","t","e","x","t">>

HeadingLine == <<"#"," ","H","e","a","d","i","n","g">>

MoreText == <<"M","o","r","e"," ","t","e","x","t">>

(***************************************************************************)
(* C8.  Blank lines around headings: where a heading directly follows a    *)
(* line, the output has one empty line between the two exactly when that   *)
(* line is neither blank nor a heading, and none otherwise; where a line   *)
(* directly follows a heading, the output has one empty line between the   *)
(* two exactly when that line is neither blank nor a heading, and none     *)
(* otherwise; where the neighbour of a heading is an empty line or is      *)
(* missing, the second pass adds no line there.                            *)
(***************************************************************************)
C8_BlankAroundHeadings ==
    (script = "complete" /\ pc = "done") =>
        LET ne  == NonEmptyIdx(lines)
            nr  == NonEmptyIdx(result)
            out == TextLines(file)
            no  == NonEmptyIdx(out)
            N   == Len(ne)
        IN  /\ Len(nr) = N /\ Len(no) = N
            /\ \A n \in 1..N : result[nr[n]] = lines[ne[n]] /\ out[no[n]] = lines[ne[n]]
            /\ \A n \in 1..(N - 1) :
                  LET a == lines[ne[n]]
                      b == lines[ne[n + 1]]
                  IN  /\ (Gap(ne, n) = 0 /\ is_heading(b)) =>
                             Gap(no, n) = IF ~is_blank(a) /\ ~is_heading(a) THEN 1 ELSE 0
                      /\ (Gap(ne, n) = 0 /\ is_heading(a)) =>
                             Gap(no, n) = IF ~is_blank(b) /\ ~is_heading(b) THEN 1 ELSE 0
                      /\ (Gap(ne, n) > 0 /\ (is_heading(a) \/ is_heading(b))) =>
                             Gap(nr, n) = Gap(ne, n)
            /\ (N >= 1 /\ is_heading(lines[ne[1]])) => nr[1] = ne[1]
            /\ (N >= 1 /\ is_heading(lines[ne[N]])) => Len(result) - nr[N] = Len(lines) - ne[N]

\* the example of the specification has been fixed: one empty line on either
\* side of the heading
C8_Witness ==
    /\ script = "complete" /\ pc = "done"
    /\ content = SomeText \o <<NL>> \o HeadingLine \o <<NL>> \o MoreText
    /\ file = SomeText \o <<NL, NL>> \o HeadingLine \o <<NL, NL>> \o MoreText \o <<NL>>

\* a list item, as C9 states it
C9_ListItem(line) ==
    LET w == Max({k \in 0..Len(line) : \A j \in 1..k : line[j] = " "})
        r == SubSeq(line, w + 1, Len(line))
    IN  \/ Len(r) >= 2 /\ r[1] \in {"-", "*"} /\ r[2] = " "
        \/ \E d \in 1..Len(r) :
              /\ \A j \in 1..d : r[j] \in DIGITS
              /\ Len(r) >= d + 2 /\ r[d + 1] = "." /\ r[d + 2] = " "

\* one iteration of the second pass on a list item, and on a plain line
C9_Step ==
    pc = "pass2" =>
        LET line == lines[i]
            prev == IF i > 1 THEN lines[i - 1] ELSE <<>>
            next == IF i < Len(lines) THEN lines[i + 1] ELSE <<>>
            before == ~(\/ i = 1 \/ is_blank(prev) \/ C9_ListItem(prev)
                        \/ is_heading(prev) \/ Delimiter(prev))
            after == ~(\/ i = Len(lines) \/ is_blank(next) \/ C9_ListItem(next)
                       \/ is_heading(next))
        IN  /\ C9_ListItem(line) =>
                  result' = result \o (IF before THEN <<(<<>>)>> ELSE <<>>) \o <<line>>
                                   \o (IF after THEN <<(<<>>)>> ELSE <<>>)
            /\ (~C9_ListItem(line) /\ ~is_heading(line) /\ ~Delimiter(line)) =>
                  result' = Append(result, line)

\* the empty lines of the output around list items
C9_Output ==
    (script = "complete" /\ pc = "done") =>
        LET ne == NonEmptyIdx(lines)
            no == NonEmptyIdx(TextLines(file))
        IN  \A n \in 1..(Len(ne) - 1) :
                LET a == lines[ne[n]]
                    b == lines[ne[n + 1]]
                IN  /\ (/\ Gap(ne, n) = 0 /\ C9_ListItem(b)
                        /\ ~(\/ is_blank(a) \/ C9_ListItem(a) \/ is_heading(a) \/ Delimiter(a)))
                           => Gap(no, n) = 1
                    /\ (/\ Gap(ne, n) = 0 /\ C9_ListItem(a)
                        /\ ~(is_blank(b) \/ C9_ListItem(b) \/ is_heading(b)))
                           => Gap(no, n) = 1
                    /\ (Gap(ne, n) = 0 /\ C9_ListItem(a) /\ C9_ListItem(b)) => Gap(no, n) = 0

(***************************************************************************)
(* C9.  Blank lines around list blocks.  A list item is a line with any    *)
(* leading indentation followed by "-" or "*" and a space, or by digits,   *)
(* "." and a space.  The iteration of the second pass on a list item       *)
(* appends a blank line before it unless the preceding line is missing,    *)
(* blank, a list item, a heading or a fence delimiter, then the item, then *)
(* a blank line unless the following line is missing, blank, a list item   *)
(* or a heading; the iteration on a line that is no list item, heading or  *)
(* delimiter appends the line alone.  In the output a list item that       *)
(* directly follows (precedes) a line that is none of these is separated   *)
(* from it by exactly one empty line.                                      *)
(***************************************************************************)
C9_BlankAroundLists == [][C9_Step]_vars /\ []C9_Output

\* a one-item list block between two plain lines has been fixed: one empty line
\* on either side of the item
C9_Witness ==
    /\ script = "complete" /\ pc = "done"
    /\ content = <<"a", NL, "-", " ", "a", NL, "a">>
    /\ file = <<"a", NL, NL, "-", " ", "a", NL, NL, "a", NL>>

\* one iteration of the second pass on a fence delimiter, as C10 states it
C10_Step ==
    (pc = "pass2" /\ Delimiter(lines[i])) =>
        LET prev == IF i > 1 THEN lines[i - 1] ELSE <<>>
            next == IF i < Len(lines) THEN lines[i + 1] ELSE <<>>
            before == ~(i = 1 \/ is_blank(prev) \/ is_heading(prev))
            after == ~(i = Len(lines) \/ is_blank(next) \/ is_heading(next))
        IN  /\ result' = result \o (IF before THEN <<(<<>>)>> ELSE <<>>) \o <<lines[i]>>
                                \o (IF after THEN <<(<<>>)>> ELSE <<>>)
            /\ lines' = lines

\* the empty lines of the output around fence delimiters
C10_Output ==
    (script = "complete" /\ pc = "done") =>
        LET ne == NonEmptyIdx(lines)
            no == NonEmptyIdx(TextLines(file))
        IN  \A n \in 1..(Len(ne) - 1) :
                LET a == lines[ne[n]]
                    b == lines[ne[n + 1]]
                IN  /\ (Gap(ne, n) = 0 /\ Delimiter(b) /\ ~is_blank(a) /\ ~is_heading(a))
                           => Gap(no, n) = 1
                    /\ (Gap(ne, n) = 0 /\ Delimiter(a) /\ ~is_blank(b) /\ ~is_heading(b))
                           => Gap(no, n) = 1
                    /\ (Gap(ne, n) = 0 /\ Delimiter(b) /\ is_blank(a)) => Gap(no, n) = 0
                    /\ (Gap(ne, n) = 0 /\ Delimiter(a) /\ is_blank(b)) => Gap(no, n) = 0

(***************************************************************************)
(* C10.  Blank lines around code fences.  The iteration of the second pass *)
(* on a fence delimiter appends a blank line before it unless the          *)
(* preceding line is missing, blank or a heading, then the delimiter, then *)
(* a blank line unless the following line is missing, blank or a heading,  *)
(* where the preceding and the following line are those of the sequence    *)
(* the pass runs over, not of the lines it has appended.  In the output a  *)
(* delimiter that directly follows or precedes a line that is neither      *)
(* blank nor a heading is separated from it by exactly one empty line.     *)
(***************************************************************************)
C10_BlankAroundFences == [][C10_Step]_vars /\ []C10_Output

\* a list item directly followed by a delimiter and a plain line: the item and the
\* delimiter each asked for a blank line between them, and the output has one
C10_Witness ==
    /\ script = "complete" /\ pc = "done"
    /\ content = <<"-", " ", "a", NL>> \o FENCE \o <<"a", NL, "a">>
    /\ result = << <<"-", " ", "a">>, <<>>, <<>>, FENCE \o <<"a">>, <<>>, <<"a">> >>
    /\ file = <<"-", " ", "a", NL, NL>> \o FENCE \o <<"a", NL, NL, "a", NL>>

(***************************************************************************)
(* C11.  Final newline: the text fix_markdown_complete returns, and the    *)
(* file written from it, ends in exactly one line break: its last          *)
(* character is "\n" and the character before it, if any, is not.          *)
(***************************************************************************)
C11_FinalNewline ==
    (script = "complete" /\ pc \in {"write", "done"}) =>
        /\ Len(fixed) >= 1
        /\ fixed[Len(fixed)] = NL
        /\ Len(fixed) >= 2 => fixed[Len(fixed) - 1] # NL
        /\ pc = "done" => file = fixed

\* a file that ended in two or more line breaks has been written with one
C11_Witness ==
    /\ script = "complete" /\ pc = "done"
    /\ Len(content) >= 3
    /\ content[Len(content)] = NL /\ content[Len(content) - 1] = NL
    /\ content[1] # NL
    /\ file[Len(file)] = NL /\ file[Len(file) - 1] # NL

(***************************************************************************)
(* C12.  Trailing blank lines are trimmed: when the input has a line that  *)
(* is not blank, the last line of the output before the line break that    *)
(* ends it is not blank (blank: empty or only whitespace).                 *)
(***************************************************************************)
C12_LastLineNotBlank ==
    (script = "complete" /\ pc = "done") =>
        ((\E k \in 1..Len(InputLines) : Strip(InputLines[k]) # <<>>) =>
            LET out == TextLines(file)
            IN  Strip(out[Len(out)]) # <<>>)

(***************************************************************************)
(* C12, as the code has it.  Trailing empty lines are trimmed: when the    *)
(* input has a line that is not empty, the last line of the output before  *)
(* the line break that ends it is the last non-empty line the first pass   *)
(* left, whitespace-only or not.                                           *)
(***************************************************************************)
C12_LastLineNotEmpty ==
    (script = "complete" /\ pc = "done") =>
        ((\E k \in 1..Len(InputLines) : InputLines[k] # <<>>) =>
            LET out == TextLines(file)
                ne  == NonEmptyIdx(lines)
            IN  /\ ne # <<>>
                /\ out[Len(out)] # <<>>
                /\ out[Len(out)] = lines[ne[Len(ne)]])

\* a text line, a whitespace-only line and an empty line: the empty line is
\* trimmed, the whitespace-only line is the last line of the file written
C12_Witness ==
    /\ script = "complete" /\ pc = "done"
    /\ Len(InputLines) >= 3
    /\ InputLines[Len(InputLines)] = <<>>
    /\ InputLines[Len(InputLines) - 1] = <<" ">>
    /\ InputLines[Len(InputLines) - 2] = <<"a">>
    /\ LET out == TextLines(file) IN out[Len(out)] = <<" ">>

\* number of leading space characters of s
LeadingSpaces(s) == Max({k \in 0..Len(s) : \A j \in 1..k : s[j] = " "})

\* the rules of the loop body that follow the heading rule, the indentation rule,
\* and those that precede the table rule
AfterHeading(line) == FixTableRow(FixEmphasis(FixTrailing(FixNumbering(FixIndent(line)))))

AfterIndent(line) == FixTableRow(FixEmphasis(FixTrailing(FixNumbering(line))))

BeforeTable(line) == FixEmphasis(FixTrailing(FixNumbering(FixIndent(FixHeading(line)))))

\* a heading as C13 states it: one or more "#", a space, text
HeadingShape(line) ==
    LET h == LeadHash(line)
    IN  h >= 1 /\ Len(line) >= h + 2 /\ line[h + 1] = " "

\* length of the run of punctuation that ends the line, whitespace after it apart
PunctRun(line) ==
    LET e == Len(line) - TrailWS(line)
    IN  Max({p \in 0..e : \A j \in (e - p + 1)..e : line[j] \in PUNCT})

\* the line with that run taken out and the whitespace after it kept
WithoutPunctRun(line) ==
    LET e == Len(line) - TrailWS(line)
    IN  SubSeq(line, 1, e - PunctRun(line)) \o SubSeq(line, e + 1, Len(line))

(***************************************************************************)
(* C13.  Heading punctuation: a heading outside a fence that ends in a run *)
(* of ".", ",", ";", ":" (whitespace may follow) leaves the heading rule   *)
(* with exactly that run removed and the whitespace after it kept; a       *)
(* heading with no such run is left as it was.  The output line is what    *)
(* the later rules of the loop make of that line.                          *)
(***************************************************************************)
C13_HeadingPunctuation ==
    (script = "errors" /\ pc = "done") =>
        \A k \in 1..Len(lines) :
            (OutsideFence(lines, k) /\ HeadingShape(lines[k])) =>
                result[k] = AfterHeading(WithoutPunctRun(lines[k]))

\* an unordered list item, as C14 states it
UnorderedItem(line) ==
    LET w == LeadingSpaces(line)
    IN  Len(line) >= w + 2 /\ line[w + 1] \in {"-", "*"} /\ line[w + 2] = " "

\* the line with its first four characters replaced by two spaces
Reindented(line) == TWO_SPACES \o SubSeq(line, 5, Len(line))

(***************************************************************************)
(* C14.  List re-indentation: a list item outside a fence, unordered or    *)
(* ordered, with exactly four leading spaces is output with exactly two,   *)
(* the first run of four spaces only being replaced; a list item with any  *)
(* other indentation keeps it.                                             *)
(***************************************************************************)
C14_ReindentsListItems ==
    (script = "errors" /\ pc = "done") =>
        \A k \in 1..Len(lines) :
            (OutsideFence(lines, k) /\ C9_ListItem(lines[k])) =>
                IF LeadingSpaces(lines[k]) = 4
                THEN /\ LeadingSpaces(result[k]) = 2
                     /\ result[k] = AfterIndent(Reindented(lines[k]))
                ELSE LeadingSpaces(result[k]) = LeadingSpaces(lines[k])

(***************************************************************************)
(* C14, as the code has it.  An unordered list item outside a fence with   *)
(* exactly four leading spaces is output with exactly two, the first run   *)
(* of four spaces only being replaced; an unordered item with any other    *)
(* indentation, and an ordered item with any indentation, keeps it.        *)
(***************************************************************************)
C14_ReindentsUnorderedItems ==
    (script = "errors" /\ pc = "done") =>
        \A k \in 1..Len(lines) :
            (OutsideFence(lines, k) /\ C9_ListItem(lines[k])) =>
                IF LeadingSpaces(lines[k]) = 4 /\ UnorderedItem(lines[k])
                THEN /\ LeadingSpaces(result[k]) = 2
                     /\ result[k] = AfterIndent(Reindented(lines[k]))
                ELSE LeadingSpaces(result[k]) = LeadingSpaces(lines[k])

\* an unordered and an ordered item, both indented by four spaces: the first is
\* re-indented, the second is not
C14_Witness ==
    /\ script = "errors" /\ pc = "done"
    /\ lines = << FOUR_SPACES \o <<"-", " ", "a">>, FOUR_SPACES \o <<"1", ".", " ", "a">> >>
    /\ result = << TWO_SPACES \o <<"-", " ", "a">>, FOUR_SPACES \o <<"1", ".", " ", "a">> >>

\* a table row as C15 states it: the trimmed line starts and ends with a pipe
RowShape(line) ==
    LET t == Strip(line)
    IN  Len(t) >= 2 /\ t[1] = "|" /\ t[Len(t)] = "|"

(***************************************************************************)
(* C15.  Table-row compaction: when a line outside a fence reaches the     *)
(* table rule as a row |...| that is not a separator row, the rule leaves  *)
(* as many pipe-separated segments, the segment before the first pipe and  *)
(* the segment after the last as they were, and every interior cell with   *)
(* its leading and trailing whitespace removed; a separator row, and a     *)
(* line that is not a row, is not changed by the rule.                     *)
(***************************************************************************)
C15_TableRowCompaction ==
    (script = "errors" /\ pc = "done") =>
        \A k \in 1..Len(lines) :
            OutsideFence(lines, k) =>
                LET l == BeforeTable(lines[k])
                    a == Split(l, "|")
                    b == Split(result[k], "|")
                IN  IF RowShape(l) /\ ~SeparatorShape(l)
                    THEN /\ Len(b) = Len(a)
                         /\ b[1] = a[1]
                         /\ b[Len(b)] = a[Len(a)]
                         /\ \A j \in 2..(Len(a) - 1) :
                               /\ LeadWS(b[j]) = 0 /\ TrailWS(b[j]) = 0
                               /\ \E x, y \in 0..Len(a[j]) :
                                     /\ x + y <= Len(a[j])
                                     /\ b[j] = SubSeq(a[j], x + 1, Len(a[j]) - y)
                                     /\ \A n \in (1..x) \cup ((Len(a[j]) - y + 1)..Len(a[j])) :
                                           a[j][n] \in WS
                    ELSE result[k] = l

\* a row with a space before its first pipe and two after its last: the cells
\* are compacted, the two outer segments are kept
C15_Witness ==
    /\ script = "errors" /\ pc = "done"
    /\ lines = << <<" ", "|", " ", "a", "|", "a", " ", "|", " ", " ">> >>
    /\ result = << <<" ", "|", "a", "|", "a", "|", " ", " ">> >>

\* the line is one that a rule of fix_markdown_errors speaks of: a heading ending
\* in punctuation, an unordered item behind four spaces, a line ending in a
\* space, a line with two asterisks, a table row
RuleOfErrors(line) ==
    \/ HeadingShape(line) /\ PunctRun(line) >= 1
    \/ LeadingSpaces(line) = 4 /\ UnorderedItem(line)
    \/ line # <<>> /\ line[Len(line)] = " "
    \/ Cardinality({k \in 1..Len(line) : line[k] = "*"}) >= 2
    \/ RowShape(line)

\* the line is one that a per-line rule of fix_markdown_complete speaks of: a
\* bare fence delimiter, a separator row
RuleOfComplete(line) == Strip(line) = FENCE \/ SeparatorShape(line)

\* the text ends inside a fence that is never closed
Unterminated(ls) == DelimitersUpTo(ls, Len(ls)) % 2 = 1

(***************************************************************************)
(* C16.  Totality: on every input, an unterminated fence or unbalanced     *)
(* pipes included, the run of either script is always at a step of its     *)
(* fixer and, inside a loop, at a line of the document; it ends having     *)
(* written the text its fixer returns, and a line that matches no rule is  *)
(* passed through unchanged: by the loop of fix_markdown_errors when it is *)
(* not a fence delimiter, by the first pass of fix_markdown_complete, and  *)
(* into the output of both (an empty line of fix_markdown_complete may be  *)
(* dropped by the later passes).                                           *)
(***************************************************************************)
C16_Totality ==
    /\ pc \in {"start", "split", "pass1", "pass2", "join", "collapse", "newline",
              "loop", "return", "write", "done"}
    /\ pc \in {"pass1", "pass2", "loop"} => i \in 1..Len(lines)
    /\ pc = "loop" => Len(result) = i - 1
    /\ pc = "done" =>
          /\ file = Fixer(content)
          /\ Len(lines) = Len(InputLines)
          /\ \A k \in 1..Len(lines) :
                IF script = "errors"
                THEN (~Delimiter(InputLines[k]) /\ ~RuleOfErrors(InputLines[k])) =>
                         /\ result[k] = InputLines[k]
                         /\ TextLines(file \o <<NL>>)[k] = InputLines[k]
                ELSE ~RuleOfComplete(InputLines[k]) =>
                         /\ lines[k] = InputLines[k]
                         /\ InputLines[k] # <<>> =>
                               \E j \in 1..Len(TextLines(file)) :
                                   TextLines(file)[j] = InputLines[k]

\* fix_markdown_errors has returned from a text with a fence that is never closed
\* and a row with an odd pipe, both as they were
C16_Witness ==
    /\ script = "errors" /\ pc = "done"
    /\ Unterminated(InputLines)
    /\ \E k \in 1..Len(InputLines) :
          /\ OutsideFence(InputLines, k)
          /\ Cardinality({j \in 1..Len(InputLines[k]) : InputLines[k][j] = "|"}) = 1
          /\ result[k] = InputLines[k]
    /\ file = content

\* the step of a script started with an argument count other than one
C17_UsageStep ==
    Len(argv) # 2 =>
        /\ pc = "start" /\ pc' = "exit"
        /\ stdout' = <<Usage(script)>>
        /\ exit_code' = 1
        /\ io' = <<>> /\ content' = <<>> /\ file' = file

\* what a script started with one path has done by the time it ends
C17_OnePath ==
    /\ pc = "exit" => Len(argv) # 2
    /\ stdout # <<>> => pc \in {"exit", "done"}
    /\ (Len(argv) = 2 /\ pc = "done") =>
          /\ io = << <<"r", argv[2]>>, <<"w", argv[2]>> >>
          /\ file = Fixer(content)
          /\ stdout = << <<"Fixed", argv[2]>> >>

(***************************************************************************)
(* C17.  CLI usage error: a script started with an argument count other    *)
(* than one prints its usage message and exits with code 1, having opened  *)
(* no file and left the file as it was; started with one path, it reads    *)
(* the file, writes the fixer's output of what it read over it and prints  *)
(* one confirmation line, and prints nothing before that.                  *)
(***************************************************************************)
C17_UsageError == [][C17_UsageStep]_vars /\ []C17_OnePath

\* a script started with two paths has left with the usage message and code 1
C17_Witness ==
    /\ pc = "exit" /\ Len(argv) = 3
    /\ stdout = <<Usage(script)>> /\ exit_code = 1
    /\ io = <<>> /\ file # <<>>

\* the length of the marker of an ordered-list line as C18 states it (optional
\* indentation, digits, ".", then whitespace), indentation included; 0 when the
\* line is not one
OrderedMarker(line) ==
    LET w == LeadWS(line)
        S == {d \in 1..(Len(line) - w) : \A j \in (w + 1)..(w + d) : line[j] \in DIGITS}
        d == IF S = {} THEN 0 ELSE Max(S)
    IN  IF d >= 1 /\ Len(line) >= w + d + 2 /\ line[w + d + 1] = "." /\ line[w + d + 2] \in WS
        THEN w + d + 1 ELSE 0

(***************************************************************************)
(* C18.  No renumbering: for every ordered-list line of the input the      *)
(* corresponding line of the output of fix_markdown_errors starts with the *)
(* same indentation, the same digits and the "." after them.               *)
(***************************************************************************)
C18_NoRenumbering ==
    (script = "errors" /\ pc = "done") =>
        /\ Len(result) = Len(lines)
        /\ \A k \in 1..Len(lines) :
              LET n == OrderedMarker(lines[k])
              IN  n > 0 =>
                    /\ Len(result[k]) >= n
                    /\ SubSeq(result[k], 1, n) = SubSeq(lines[k], 1, n)
                    /\ OrderedMarker(result[k]) \in {0, n}

\* an indented item numbered 12 whose line another rule has changed: its number
\* is still 12
C18_Witness ==
    /\ script = "errors" /\ pc = "done"
    /\ \E k \in 1..Len(lines) :
          /\ OrderedMarker(lines[k]) = 7
          /\ SubSeq(lines[k], 5, 7) = <<"1", "2", ".">>
          /\ result[k] # lines[k]
          /\ SubSeq(result[k], 1, 7) = FOUR_SPACES \o <<"1", "2", ".">>

\* one iteration of the loop of fix_markdown_errors: one line is added to the
\* output, made from the line met and the state alone; a delimiter is added as
\* it is and flips the state, any other line leaves the state
C19_Step ==
    pc = "loop" =>
        LET line == lines[i]
        IN  /\ Len(result') = Len(result) + 1
            /\ SubSeq(result', 1, Len(result)) = result
            /\ result'[i] = IF in_code_block THEN line ELSE fix_markdown_errors(line)
            /\ IF Delimiter(line)
               THEN result'[i] = line /\ in_code_block' = ~in_code_block
               ELSE in_code_block' = in_code_block

\* the output has as many lines as the input, its delimiters are those of the
\* input, and the state is that of the delimiters met
C19_Output ==
    /\ (script = "errors" /\ pc \in {"loop", "return"}) =>
          in_code_block = (DelimitersUpTo(lines, Len(result)) % 2 = 1)
    /\ (script = "errors" /\ pc = "done") =>
          /\ Len(Split(file, NL)) = Len(InputLines)
          /\ Split(file, NL) = result
          /\ \A k \in 1..Len(InputLines) :
                Delimiter(InputLines[k]) => Split(file, NL)[k] = InputLines[k]

(***************************************************************************)
(* C19.  Line-for-line output of fix_markdown_errors: the output has as    *)
(* many lines as the input; output line i is made from input line i and    *)
(* the inside-code-block state alone; a line whose trimmed form starts     *)
(* with three backticks is output as it is and flips the state.            *)
(***************************************************************************)
C19_LineForLine == [][C19_Step]_vars /\ []C19_Output

\* an indented delimiter, a line kept inside the block, a delimiter with a
\* trailing space kept as it is, a line rewritten after the block
C19_Witness ==
    /\ script = "errors" /\ pc = "done"
    /\ InputLines = << <<" ">> \o FENCE, <<"a", " ">>, FENCE \o <<" ">>, <<"a", " ">> >>
    /\ result = << <<" ">> \o FENCE, <<"a", " ">>, FENCE \o <<" ">>, <<"a">> >>
    /\ ~in_code_block

\* the lines of ls that are not empty, in order
NonEmptyLines(ls) == SelectSeq(ls, LAMBDA l : l # <<>>)

(***************************************************************************)
(* C20.  Pass 2 and pass 3 of fix_markdown_complete only add or remove     *)
(* empty lines: the non-empty lines of what the second pass has emitted    *)
(* are those of the lines it has gone through, in order, and the non-empty *)
(* lines of the text returned, and of the file written, are the non-empty  *)
(* lines the first pass left.                                              *)
(***************************************************************************)
C20_OnlyEmptyLines ==
    script = "complete" =>
        /\ pc = "pass2" => NonEmptyLines(result) = NonEmptyLines(SubSeq(lines, 1, i - 1))
        /\ pc = "join" => NonEmptyLines(result) = NonEmptyLines(lines)
        /\ pc \in {"collapse", "newline"} => NonEmptyLines(Split(text, NL)) = NonEmptyLines(lines)
        /\ pc \in {"write", "done"} => NonEmptyLines(Split(fixed, NL)) = NonEmptyLines(lines)
        /\ pc = "done" => NonEmptyLines(Split(file, NL)) = NonEmptyLines(lines)

\* a bare delimiter tagged by the first pass: the second pass adds an empty line
\* before it, the third removes the two that end the text
C20_Witness ==
    /\ script = "complete" /\ pc = "done"
    /\ InputLines = << <<"a">>, FENCE, <<>>, <<>> >>
    /\ Split(file, NL) = << <<"a">>, <<>>, FENCE_TEXT, <<>> >>

\* the line typed, trimmed
Typed == Strip(Head(stdin))

\* the tool at its start: with arguments it issues them, joined by single
\* spaces, as one query for 5 results and does not enter the loop; without, it
\* enters the loop and issues nothing
C21_Start ==
    (script = "query" /\ pc = "start") =>
        IF Len(argv) > 1
        THEN /\ calls' = << [query_text |-> Join(Tail(argv), " "), n_results |-> 5] >>
             /\ pc' = "done"
             /\ stdin' = stdin
        ELSE pc' = "prompt" /\ calls' = calls

\* one turn of the loop on a line typed: an empty line issues nothing and
\* prompts again; quit ends the loop and issues nothing; list and demo print
\* their listing and their demonstration, prompt again and issue no query of
\* the line typed; any other line issues the line, trimmed, as one query for 5
\* results and prompts again
C21_Turn ==
    (script = "query" /\ pc = "prompt" /\ stdin # <<>>) =>
        /\ stdin' = Tail(stdin)
        /\ IF Typed = <<>> THEN pc' = "prompt" /\ calls' = calls /\ stdout' = stdout
           ELSE IF Lower(Typed) = QUIT THEN pc' = "done" /\ calls' = calls
           ELSE IF Lower(Typed) = LIST
                THEN /\ pc' = "prompt" /\ calls' = calls
                     /\ stdout' = Append(stdout, "INDEXED DOCUMENTS REFERENCE")
           ELSE IF Lower(Typed) = DEMO
                THEN /\ pc' = "prompt"
                     /\ Len(calls') >= Len(calls)
                     /\ SubSeq(calls', 1, Len(calls)) = calls
                     /\ \A k \in (Len(calls) + 1)..Len(calls') :
                           /\ calls'[k].query_text # Typed
                           /\ calls'[k].n_results # 5
                     /\ stdout'[Len(stdout')] =
                            "Demo Complete - Use free-form queries for custom searches"
           ELSE /\ pc' = "prompt"
                /\ calls' = Append(calls, [query_text |-> Typed, n_results |-> 5])

\* the loop is left only on a line that is quit
C21_EndsOnlyOnQuit ==
    (script = "query" /\ pc = "prompt" /\ pc' # "prompt") =>
        stdin # <<>> /\ Lower(Typed) = QUIT

\* the loop is left on a line that is quit, and by the EOFError of input() when
\* standard input has no line left: nothing is issued, the tool ends with 1
C21_EndsOnQuitOrEndOfInput ==
    (script = "query" /\ pc = "prompt") =>
        /\ (pc' = "done") = (stdin # <<>> /\ Lower(Typed) = QUIT)
        /\ (pc' = "raised") = (stdin = <<>>)
        /\ pc' \in {"prompt", "done", "raised"}
        /\ stdin = <<>> => (calls' = calls /\ stdout' = stdout /\ exit_code' = 1)

(***************************************************************************)
(* C21.  Interactive query loop: started without arguments, the tool       *)
(* leaves its loop only on an input that is quit once trimmed and put in   *)
(* lower case; an empty input issues no query and prompts again; list and  *)
(* demo, in any case, run their command and issue no free-form query; any  *)
(* other input issues exactly one query_collection call with n_results=5.  *)
(* Started with arguments, it issues them, joined by single spaces, as     *)
(* exactly one query with n_results=5 and never enters the loop.           *)
(***************************************************************************)
C21_QueryLoop == [][C21_Start /\ C21_Turn /\ C21_EndsOnlyOnQuit]_vars

(***************************************************************************)
(* C21, as the code has it.  The same, but the loop is also left when      *)
(* standard input ends: input() raises EOFError, main does not catch it,   *)
(* and the tool stops there with no further query.                         *)
(***************************************************************************)
C21_QueryLoopOrEndOfInput ==
    [][C21_Start /\ C21_Turn /\ C21_EndsOnQuitOrEndOfInput]_vars

\* a padded query and a padded, capitalised quit have been typed: one query of
\* the trimmed line was issued for 5 results, then the loop was left
C21_Witness ==
    /\ script = "query" /\ pc = "done" /\ Len(argv) = 1
    /\ calls = << [query_text |-> <<"a", " ", "b">>, n_results |-> 5] >>
    /\ stdout[Len(stdout)] = "Goodbye!"
    /\ Len(stdout) = 4
    /\ stdin = <<>>

====
